---- MODULE Spec2Model ----
(***************************************************************************)
(* The Crawly crawler of src/src/crawly.rs, and the search service of      *)
(* src/src/server.rs, indexer.rs and search_engine.rs, as state machines.  *)
(*                                                                         *)
(* One crawl is one call of Crawler::start.  Every invocation of           *)
(* Crawler::crawl is a "visit"; a visit is identified by its path in the   *)
(* recursion tree (<<>> is the seed visit, <<2>> its second scheduled      *)
(* child, ...).  Every `.await` of crawl that can suspend the future is a  *)
(* step boundary: the semaphore acquire, the robots-cache write lock, the  *)
(* two robots.txt awaits, the sleep, the page GET, the body read, the      *)
(* visited-set write lock and the join of the children.  A tokio lock or   *)
(* semaphore acquisition can return Pending even when uncontended (the     *)
(* task's cooperative budget is used up), so the futures that join_all     *)
(* polls may interleave at each of these points.  The two visited.read()   *)
(* awaits of the admission test are taken in one step: the visited set     *)
(* only grows, so reading `len` earlier than `contains` admits nothing     *)
(* that reading both at the time of `len` would not admit.  Waiters of the *)
(* semaphore and of the robots-cache lock are served in any order.         *)
(*                                                                         *)
(* The network is the environment: a send or a body read may fail and a    *)
(* page response may be a Cloudflare challenge, at most MaxFaults times    *)
(* per crawl.  Pages, links and robots.txt contents are fixed below.       *)
(*                                                                         *)
(* Spec is the crawl with time abstracted (a sleep ends at some point) and *)
(* with the rate_limit_wait_seconds of CrawlerConfig::default.  HttpSpec   *)
(* is the same crawl with time counted in seconds (Tick), with servers     *)
(* that may also answer with a non-2xx status, and with every configured   *)
(* rate_limit_wait_seconds.  Time passes only while a visit sleeps:        *)
(* requests and lock hand-overs take no time, which is the least time a    *)
(* run can take.                                                           *)
(*                                                                         *)
(* ServiceSpec is the RPC service: SearchService answers Index and Search  *)
(* requests through IndexerService, whose visit() runs a voyager collector *)
(* (not the crawler of crawly.rs) and writes every scraped page to the     *)
(* SearchEngine.  Hits are listed in index order.                          *)
(***************************************************************************)
EXTENDS Integers, Sequences, FiniteSets, Bags, TLC

VARIABLES
    config,        \* CrawlerConfig of the crawl
    seed,          \* the string passed to Crawler::start
    phase,         \* "idle" | "running" | "returned"
    start_result,  \* "none" | "Ok" | "Err": what Crawler::start returned
    visits,        \* the invocations of Crawler::crawl, by path
    permits,       \* available permits of the semaphore
    robots_cache,  \* Crawler.robots_cache: domain -> RobotsCache entry
    robots_lock,   \* <<>> when free, <<v>> when visit v holds the write guard
    visited,       \* the HashSet<Url> behind the RwLock
    written,       \* bag of the tuples passed to Writer.write
    robots_gets,   \* bag of the GETs of robots.txt, by domain and robots URL
    faults,        \* network faults the environment has injected so far
    since_get,     \* domain -> seconds since the latest page GET to it
    committed,     \* SearchEngine: the documents of the committed index
    pending,       \* SearchEngine: documents added but not yet committed
    searcher,      \* SearchEngine.reader: how many committed documents it has loaded
    n_writes,      \* number of calls of Writer.write so far
    indexing,      \* << >>, or <<r>> for the Index request being served
    rpc_log        \* the RPCs answered so far, with their outcomes

crawl_vars == <<config, seed, phase, start_result, visits, permits, robots_cache,
                robots_lock, visited, written, robots_gets, since_get>>

service_vars == <<committed, pending, searcher, n_writes, indexing, rpc_log>>

vars == <<crawl_vars, faults, service_vars>>

----------------------------------------------------------------------------
(* Bounds of the model *)

\* largest max_depth a crawl is configured with
MaxDepthCfg == 1
\* largest max_concurrent_requests a crawl is configured with
MaxConcurrentCfg == 2
\* number of network faults (failed send, failed body read, non-2xx status,
\* Cloudflare challenge) the environment may inject into one crawl
MaxFaults == 1
\* largest max_pages a crawl is configured with
MaxPagesCfg == 2
\* largest rate_limit_wait_seconds a crawl is configured with
MaxWaitCfg == 2
\* number of RPCs the service answers
MaxRpcs == 3

----------------------------------------------------------------------------
(* The web the crawl runs against *)

Url(scheme, kind, host, path) ==
    [scheme |-> scheme, kind |-> kind, host |-> host, path |-> path]

StubRoot    == Url("http", "domain", "stub", "/")
StubA       == Url("http", "domain", "stub", "/a")
StubB       == Url("http", "domain", "stub", "/b")
StubPrivate == Url("http", "domain", "stub", "/private")
OtherRoot   == Url("http", "domain", "other", "/")
IpRoot      == Url("http", "ip", "10.0.0.1", "/")
IpImg       == Url("http", "ip", "10.0.0.1", "/img")
IpOtherX    == Url("http", "ip", "10.0.0.2", "/x")
MailTo      == Url("mailto", "none", "", "x")

\* the strings start() may be given: the text of a URL, or text Url::parse rejects
SeedTexts == {"http://stub/", "http://10.0.0.1/", "::::"}

Rel(path) == [kind |-> "rel", path |-> path, url |-> StubRoot]
Abs(u)    == [kind |-> "abs", path |-> "", url |-> u]
BadHref   == [kind |-> "bad", path |-> "", url |-> StubRoot]

\* the href attributes of the <a> elements of a page, in document order
PageLinks(u) ==
    CASE u = StubRoot -> <<Rel("/a"), Rel("/a"), Rel("/private"),
                           Abs(OtherRoot), Abs(MailTo), BadHref>>
      [] u = StubA    -> <<Rel("/"), Rel("/b")>>
      [] u = IpRoot   -> <<Abs(IpOtherX), Abs(MailTo), Rel("/img")>>
      [] OTHER        -> <<>>

\* what infer::get makes of the body: "none" when it recognises nothing
PageSniff(u) ==
    CASE u = StubRoot -> "text/html"
      [] u = IpRoot   -> "application/pdf"
      [] u = IpImg    -> "image/png"
      [] OTHER        -> "none"

\* whether the body is valid UTF-8
PageUtf8(u) == u # IpImg

\* the URLs the robots.txt served by a host disallows for the user agent
RobotsTxt(host) ==
    CASE host = "stub"     -> {StubPrivate}
      [] host = "10.0.0.2" -> {IpOtherX}
      [] OTHER             -> {}

\* the lines of a host's robots.txt that contain "Crawl-delay", each as what
\* `line.split(':').last()?.trim().parse()` makes of it: the number, or NoParse
NoParse == -1

RobotsDelayLines(host) ==
    CASE host = "stub"     -> <<2>>
      [] host = "10.0.0.2" -> <<NoParse, 2>>
      [] OTHER             -> << >>

\* the body a host sends with a non-2xx answer to GET /robots.txt: an error
\* page without rules and without Crawl-delay
ErrorBodyRules == {}
ErrorBodyDelayLines == << >>

----------------------------------------------------------------------------
(* The pure parts of Crawler::crawl and Crawler::start *)

\* const RATE_LIMIT_WAIT_SECONDS
RATE_LIMIT_WAIT_SECONDS == 1

\* the delay taken from the robots.txt text: the first Crawl-delay line that
\* parses, else RATE_LIMIT_WAIT_SECONDS
DelaySeconds(lines) ==
    LET parsed == SelectSeq(lines, LAMBDA x : x # NoParse)
    IN  IF Len(parsed) > 0 THEN parsed[1] ELSE RATE_LIMIT_WAIT_SECONDS

\* the longest sleep a visit can take; elapsed times are counted up to it
Hosts == {"stub", "other", "10.0.0.1", "10.0.0.2"}
MaxDelaySeconds ==
    LET delays == {RATE_LIMIT_WAIT_SECONDS, MaxWaitCfg}
                  \cup {DelaySeconds(RobotsDelayLines(h)) : h \in Hosts}
    IN  CHOOSE d \in delays : \A e \in delays : e <= d

\* gap of a page GET that is the first to its domain
NoGap == -1

\* whether a response carries `cf-mitigated: challenge`
CfIgnored(response) == FALSE
CfMitigated(response) == response = "challenge"

\* Url::parse of the text given to start()
ParseSeed(text) ==
    CASE text = "http://stub/"     -> [ok |-> TRUE, url |-> StubRoot]
      [] text = "http://10.0.0.1/" -> [ok |-> TRUE, url |-> IpRoot]
      [] OTHER                     -> [ok |-> FALSE, url |-> StubRoot]

\* url.domain().unwrap_or_default(): the host when it is a domain name, "" for
\* an IP-address host and for a URL without host
Domain(u) == IF u.kind = "domain" THEN u.host ELSE ""

\* url.host() is Some
HasHost(u) == u.kind # "none"

\* format!("{}://{}/robots.txt", url.scheme(), url.host())
RobotsUrl(u) == Url(u.scheme, u.kind, u.host, "/robots.txt")

\* url.join(&link): a relative href replaces the path of the base, an absolute
\* one stands for itself, a malformed one is an Err
JoinUrl(base, href) ==
    CASE href.kind = "rel" -> [ok |-> TRUE, url |-> [base EXCEPT !.path = href.path]]
      [] href.kind = "abs" -> [ok |-> TRUE, url |-> href.url]
      [] OTHER             -> [ok |-> FALSE, url |-> base]

\* the same-domain test of the link filter
SameDomain(u, domain) == Domain(u) = domain

\* the URLs a page's links schedule a recursive visit for, in document order
ScheduledLinks(u) ==
    LET joined == [i \in 1..Len(PageLinks(u)) |-> JoinUrl(u, PageLinks(u)[i])]
        kept   == SelectSeq(joined, LAMBDA j : j.ok /\ SameDomain(j.url, Domain(u)))
    IN  [i \in 1..Len(kept) |-> kept[i].url]

\* faulty variant of the depth test: one level too deep
DepthExceededOffByOne(depth) == depth > config.max_depth + 1
\* first admission test
DepthExceeded(depth) == depth > config.max_depth

\* second admission test
PageCapReached == Cardinality(visited) > config.max_pages

\* third admission test
AlreadyVisited(u) == u \in visited

Rejected(v) ==
    \/ DepthExceeded(visits[v].depth)
    \/ PageCapReached
    \/ AlreadyVisited(visits[v].url)

\* faulty variant of the robots test: the matcher's answer is ignored
RobotsNeverDenies(content, u) == FALSE
\* !DefaultMatcher::default().one_agent_allowed_by_robots(content, agent, url)
RobotsDenies(content, u) == u \in content

\* the condition under which the fetched page is not written: allowed_mimes is
\* non-empty and the sniffed type is in it, or nothing was sniffed
MimeSkips(u) ==
    /\ config.allowed_mimes # {}
    /\ IF PageSniff(u) = "none" THEN TRUE ELSE PageSniff(u) \in config.allowed_mimes

----------------------------------------------------------------------------
(* Visits *)

\* what the robots step leaves the visit with: None, or Some((content, delay));
\* from_host and status_ok record the response the content was read from
NoRobots ==
    [some |-> FALSE, content |-> {}, delay |-> 0, from_host |-> "", status_ok |-> TRUE]
SomeRobots(entry) ==
    [some |-> TRUE, content |-> entry.content, delay |-> entry.delay,
     from_host |-> entry.from_host, status_ok |-> entry.status_ok]

\* the RobotsCache entry built from a response to GET scheme://host/robots.txt
\* (crawl_delay is always stored as Some(delay_seconds)); the status of the
\* response is not looked at
RobotsEntry(host, status_ok) ==
    [content |-> IF status_ok THEN RobotsTxt(host) ELSE ErrorBodyRules,
     delay |-> DelaySeconds(IF status_ok THEN RobotsDelayLines(host)
                            ELSE ErrorBodyDelayLines),
     from_host |-> host, status_ok |-> status_ok]

NewVisit(u, depth) ==
    [url |-> u, depth |-> depth, pc |-> "acquire", permit |-> FALSE,
     robots |-> NoRobots, result |-> "none", children |-> 0,
     got |-> FALSE, wrote |-> FALSE, inserted |-> FALSE,
     robots_fetch |-> "none", slept |-> << >>, remaining |-> 0,
     gap |-> NoGap, response |-> "none"]

Ids == DOMAIN visits

At(v, pc) == v \in Ids /\ visits[v].pc = pc

ChildIds(v) == {Append(v, i) : i \in 1..visits[v].children}

InjectFault == faults < MaxFaults /\ faults' = faults + 1

\* faulty variant: a dropped permit is not returned to the semaphore
PermitLeaked(n) == n
\* a SemaphorePermit is dropped
PermitsAfterDrop(n) == n + 1

\* the visit returns `res`; a permit it still holds is dropped with its frame
Return(v, res) ==
    /\ visits' = [visits EXCEPT ![v].pc = "done", ![v].result = res,
                                ![v].permit = FALSE]
    /\ permits' = IF visits[v].permit THEN PermitsAfterDrop(permits) ELSE permits

Goto(v, pc) == visits' = [visits EXCEPT ![v].pc = pc]

\* `sleep(Duration::from_secs(secs)).await` begins
StartSleep(v, robots, secs) ==
    visits' = [visits EXCEPT ![v].pc = "sleep", ![v].robots = robots,
                             ![v].slept = Append(@, secs), ![v].remaining = secs]

\* the visit sends its page GET and awaits the response; gap is the time since
\* the previous page GET to the same domain
SendPageGet(v) ==
    LET domain == Domain(visits[v].url) IN
    /\ visits' = [visits EXCEPT ![v].pc = "get", ![v].got = TRUE,
                                ![v].gap = IF domain \in DOMAIN since_get
                                           THEN since_get[domain] ELSE NoGap]
    /\ since_get' = (domain :> 0) @@ since_get

----------------------------------------------------------------------------
(* Initial state: a configured Crawler, before start() *)

Configs ==
    [max_depth : 0..MaxDepthCfg,
     max_pages : 1..MaxPagesCfg,
     max_concurrent_requests : 1..MaxConcurrentCfg,
     robots : BOOLEAN,
     allowed_mimes : {{}, {"text/html"}},
     rate_limit_wait_seconds : 1..MaxWaitCfg]

\* the configurations that keep the rate_limit_wait_seconds of
\* CrawlerConfig::default
DefaultWaitConfigs ==
    {c \in Configs : c.rate_limit_wait_seconds = RATE_LIMIT_WAIT_SECONDS}

Constructed ==
    /\ seed \in SeedTexts
    /\ phase = "idle"
    /\ start_result = "none"
    /\ visits = << >>
    /\ permits = 0
    /\ robots_cache = << >>
    /\ robots_lock = << >>
    /\ visited = {}
    /\ written = EmptyBag
    /\ robots_gets = EmptyBag
    /\ faults = 0
    /\ since_get = << >>

\* SearchEngine::default and IndexerService::default: an empty index whose
\* reader has loaded it
ServiceConstructed ==
    /\ committed = << >>
    /\ pending = << >>
    /\ searcher = 0
    /\ n_writes = 0
    /\ indexing = << >>
    /\ rpc_log = << >>

Init == config \in DefaultWaitConfigs /\ Constructed /\ ServiceConstructed

HttpInit == config \in Configs /\ Constructed /\ ServiceConstructed

----------------------------------------------------------------------------
(* Crawler::start *)

\* start(): parse the seed, build the semaphore and the visited set, call crawl
Start ==
    /\ phase = "idle"
    /\ IF ParseSeed(seed).ok
       THEN /\ phase' = "running"
            /\ permits' = config.max_concurrent_requests
            /\ visits' = (<< >> :> NewVisit(ParseSeed(seed).url, 0))
            /\ UNCHANGED start_result
       ELSE /\ phase' = "returned"
            /\ start_result' = "Err"
            /\ UNCHANGED <<permits, visits>>
    /\ UNCHANGED service_vars
    /\ UNCHANGED <<since_get, config, seed, robots_cache, robots_lock, visited, written,
                   robots_gets, faults>>

\* start(): `self.crawl(..).await?; Ok(())`
StartReturn ==
    /\ phase = "running"
    /\ At(<< >>, "done")
    /\ phase' = "returned"
    /\ start_result' = visits[<< >>].result
    /\ UNCHANGED service_vars
    /\ UNCHANGED <<since_get, config, seed, visits, permits, robots_cache, robots_lock,
                   visited, written, robots_gets, faults>>

----------------------------------------------------------------------------
(* Crawler::crawl, one action per stretch between two suspension points *)

\* faulty variant of the semaphore: acquire never waits
CanAcquireAlways == TRUE
\* Semaphore::acquire completes only when a permit is available
CanAcquire == permits > 0

\* `let permit = semaphore.acquire().await;`
Acquire ==
    \E v \in Ids :
        /\ At(v, "acquire")
        /\ CanAcquire
        /\ permits' = permits - 1
        /\ visits' = [visits EXCEPT ![v].pc = "admit", ![v].permit = TRUE]
        /\ UNCHANGED service_vars
        /\ UNCHANGED <<since_get, config, seed, phase, start_result, robots_cache, robots_lock,
                       visited, written, robots_gets, faults>>

\* the admission tests, then `domain`, and with robots enabled the host of the
\* robots URL
Admit ==
    \E v \in Ids :
        /\ At(v, "admit")
        /\ IF Rejected(v)
           THEN Return(v, "Ok")
           ELSE IF config.robots
                THEN IF HasHost(visits[v].url)
                     THEN Goto(v, "robots_lock") /\ UNCHANGED permits
                     ELSE Return(v, "Err")
                ELSE /\ StartSleep(v, NoRobots, config.rate_limit_wait_seconds)
                     /\ UNCHANGED permits
        /\ UNCHANGED service_vars
        /\ UNCHANGED <<since_get, config, seed, phase, start_result, robots_cache, robots_lock,
                       visited, written, robots_gets, faults>>

\* `self.robots_cache.write().await`, then the cache lookup: a hit clones the
\* entry and drops the guard at once, a miss sends the GET of robots.txt with
\* the guard held
RobotsLock ==
    \E v \in Ids :
        /\ At(v, "robots_lock")
        /\ robots_lock = << >>
        /\ LET domain == Domain(visits[v].url) IN
           IF domain \in DOMAIN robots_cache
           THEN /\ StartSleep(v, SomeRobots(robots_cache[domain]),
                              robots_cache[domain].delay)
                /\ UNCHANGED <<robots_lock, robots_gets>>
           ELSE /\ visits' = [visits EXCEPT ![v].pc = "robots_send"]
                /\ robots_lock' = <<v>>
                /\ robots_gets' = robots_gets (+)
                       SetToBag({[domain |-> domain, url |-> RobotsUrl(visits[v].url)]})
        /\ UNCHANGED service_vars
        /\ UNCHANGED <<since_get, config, seed, phase, start_result, permits, robots_cache,
                       visited, written, faults>>

\* `self.client.get(&robots_url).send().await`: Ok(response), or an Err that
\* leaves the visit without robots information and drops the guard
RobotsSend ==
    \E v \in Ids :
        /\ At(v, "robots_send")
        /\ \/ /\ Goto(v, "robots_text")
              /\ UNCHANGED <<robots_lock, faults, since_get>>
           \/ /\ InjectFault
              /\ LET domain == Domain(visits[v].url) IN
                 /\ visits' = [visits EXCEPT ![v].pc = "get", ![v].got = TRUE,
                                             ![v].robots_fetch = "error",
                                             ![v].gap = IF domain \in DOMAIN since_get
                                                        THEN since_get[domain]
                                                        ELSE NoGap]
                 /\ since_get' = (domain :> 0) @@ since_get
              /\ robots_lock' = << >>
        /\ UNCHANGED service_vars
        /\ UNCHANGED <<config, seed, phase, start_result, permits, robots_cache,
                       visited, written, robots_gets>>

\* `self.client.get(&robots_url).send().await` is Ok(response) for a response
\* of any status: a non-2xx answer to the GET of robots.txt
RobotsSendNon2xx ==
    \E v \in Ids :
        /\ At(v, "robots_send")
        /\ InjectFault
        /\ visits' = [visits EXCEPT ![v].pc = "robots_text",
                                    ![v].robots_fetch = "non2xx"]
        /\ UNCHANGED service_vars
        /\ UNCHANGED <<config, seed, phase, start_result, permits, robots_cache,
                       robots_lock, visited, written, robots_gets, since_get>>

\* `response.text().await?`, then the entry is cached and the guard dropped; on
\* Err the visit returns the error (guard and permit are dropped with the frame)
RobotsText ==
    \E v \in Ids :
        /\ At(v, "robots_text")
        /\ LET entry == RobotsEntry(visits[v].url.host,
                                    visits[v].robots_fetch # "non2xx") IN
           \/ /\ robots_cache' = (Domain(visits[v].url) :> entry) @@ robots_cache
              /\ StartSleep(v, SomeRobots(entry), entry.delay)
              /\ UNCHANGED <<permits, faults>>
           \/ /\ InjectFault
              /\ Return(v, "Err")
              /\ UNCHANGED robots_cache
        /\ robots_lock' = << >>
        /\ UNCHANGED service_vars
        /\ UNCHANGED <<since_get, config, seed, phase, start_result, visited, written,
                       robots_gets>>

\* the sleep completes; with robots information the matcher is asked, and a
\* denied URL ends the visit; otherwise the page GET is sent
AfterSleep(v) ==
    /\ At(v, "sleep")
    /\ IF visits[v].robots.some /\ RobotsDenies(visits[v].robots.content, visits[v].url)
       THEN Return(v, "Ok") /\ UNCHANGED since_get
       ELSE SendPageGet(v) /\ UNCHANGED permits
    /\ UNCHANGED service_vars
    /\ UNCHANGED <<config, seed, phase, start_result, robots_cache, robots_lock,
                   visited, written, robots_gets, faults>>

\* with time abstracted: the sleep completes at some point
Sleep == \E v \in Ids : AfterSleep(v)

\* with time counted: the sleep completes once its seconds have elapsed
SleepElapsed == \E v \in Ids : visits[v].remaining = 0 /\ AfterSleep(v)

\* the response to the page GET has arrived: a Cloudflare challenge ends the
\* visit with Ok(()), any other response is read whatever its status
Respond(v, r) ==
    IF CfMitigated(r)
    THEN /\ visits' = [visits EXCEPT ![v].pc = "done", ![v].result = "Ok",
                                     ![v].permit = FALSE, ![v].response = r]
         /\ permits' = PermitsAfterDrop(permits)
    ELSE /\ visits' = [visits EXCEPT ![v].pc = "body", ![v].response = r]
         /\ UNCHANGED permits

\* `self.client.get(url.clone()).send().await?` and the cf-mitigated test: the
\* response arrives (2xx, non-2xx or a Cloudflare challenge), or the send
\* fails; a URL without host cannot be requested and is always an Err
Get ==
    \E v \in Ids :
        /\ At(v, "get")
        /\ IF ~HasHost(visits[v].url)
           THEN Return(v, "Err") /\ UNCHANGED faults
           ELSE \/ Respond(v, "2xx") /\ UNCHANGED faults
                \/ InjectFault /\ Return(v, "Err")
                \/ InjectFault /\ Respond(v, "challenge")
        /\ UNCHANGED service_vars
        /\ UNCHANGED <<since_get, config, seed, phase, start_result, robots_cache, robots_lock,
                       visited, written, robots_gets>>

\* `self.client.get(url.clone()).send().await?` is Ok(response) for a response
\* of any status: a non-2xx answer to the page GET
GetNon2xx ==
    \E v \in Ids :
        /\ At(v, "get")
        /\ HasHost(visits[v].url)
        /\ InjectFault
        /\ Respond(v, "non2xx")
        /\ UNCHANGED service_vars
        /\ UNCHANGED <<since_get, config, seed, phase, start_result, robots_cache,
                       robots_lock, visited, written, robots_gets>>

\* faulty variant: the permit is kept until the visit returns, across the join
\* of its children
HeldAcrossChildren == TRUE
\* whether the visit still holds its permit once the page is written: the
\* permit is dropped explicitly before the visited set is updated
HoldsPermitAfterWrite == FALSE

\* `response.bytes().await?`, the MIME test, the UTF-8 decoding, Writer.write
\* and the explicit drop of the permit
Body ==
    \E v \in Ids :
        /\ At(v, "body")
        /\ LET u == visits[v].url IN
           \/ /\ MimeSkips(u)
              /\ visits' = [visits EXCEPT ![v].pc = "skip_insert", ![v].permit = FALSE]
              /\ permits' = PermitsAfterDrop(permits)
              /\ UNCHANGED <<written, faults>>
           \/ /\ ~MimeSkips(u)
              /\ ~PageUtf8(u)
              /\ Return(v, "Err")
              /\ UNCHANGED <<written, faults>>
           \/ /\ ~MimeSkips(u)
              /\ PageUtf8(u)
              /\ written' = written (+)
                     SetToBag({[url |-> u, origin_url |-> visits[<< >>].url,
                                depth |-> visits[v].depth]})
              /\ visits' = [visits EXCEPT ![v].pc = "insert", ![v].wrote = TRUE,
                                          ![v].permit = HoldsPermitAfterWrite]
              /\ permits' = IF HoldsPermitAfterWrite THEN permits
                            ELSE PermitsAfterDrop(permits)
              /\ UNCHANGED faults
           \/ /\ InjectFault
              /\ Return(v, "Err")
              /\ UNCHANGED written
        /\ UNCHANGED service_vars
        /\ UNCHANGED <<since_get, config, seed, phase, start_result, robots_cache, robots_lock,
                       visited, robots_gets>>

\* faulty variant: the URL is not recorded
InsertSkipped(set, u) == set
\* `visited.write().await.insert(url.clone())`
InsertUrl(set, u) == set \cup {u}

\* MIME branch: `visited.write().await.insert(url.clone()); return Ok(())`
SkipInsert ==
    \E v \in Ids :
        /\ At(v, "skip_insert")
        /\ visited' = InsertUrl(visited, visits[v].url)
        /\ visits' = [visits EXCEPT ![v].pc = "done", ![v].result = "Ok",
                                    ![v].inserted = TRUE]
        /\ UNCHANGED service_vars
        /\ UNCHANGED <<since_get, config, seed, phase, start_result, permits, robots_cache,
                       robots_lock, written, robots_gets, faults>>

\* faulty variant: a child is given the depth of its parent
ChildDepthOfParent(depth) == depth
\* the depth argument of a recursive visit: `depth + 1`
ChildDepth(depth) == depth + 1

\* `visited.write().await.insert(url.clone())`, then the links are extracted,
\* joined and filtered, and one recursive visit per kept link is handed to
\* join_all
Insert ==
    \E v \in Ids :
        /\ At(v, "insert")
        /\ visited' = InsertUrl(visited, visits[v].url)
        /\ LET links == ScheduledLinks(visits[v].url)
               kids  == [c \in {Append(v, i) : i \in 1..Len(links)} |->
                            NewVisit(links[c[Len(c)]], ChildDepth(visits[v].depth))]
           IN  visits' = kids @@ [visits EXCEPT ![v].pc = "join", ![v].inserted = TRUE,
                                                ![v].children = Len(links)]
        /\ UNCHANGED service_vars
        /\ UNCHANGED <<since_get, config, seed, phase, start_result, permits, robots_cache,
                       robots_lock, written, robots_gets, faults>>

\* faulty variant: the join ends with the first child error and returns it
\* (try_join_all with `?`)
TryJoinAll(v) ==
    LET failed == \E c \in ChildIds(v) :
                      visits[c].pc = "done" /\ visits[c].result = "Err"
    IN  [ready  |-> failed \/ \A c \in ChildIds(v) : visits[c].pc = "done",
         result |-> IF failed THEN "Err" ELSE "Ok"]
\* `let _ = join_all(..).await; Ok(())`: the join is ready when every child
\* has returned; what the children returned is discarded
JoinAll(v) ==
    [ready  |-> \A c \in ChildIds(v) : visits[c].pc = "done",
     result |-> "Ok"]

\* `let _ = join_all(..).await; Ok(())`: every child has returned, whatever it
\* returned
JoinChildren ==
    \E v \in Ids :
        /\ At(v, "join")
        /\ JoinAll(v).ready
        /\ Return(v, JoinAll(v).result)
        /\ UNCHANGED service_vars
        /\ UNCHANGED <<since_get, config, seed, phase, start_result, robots_cache, robots_lock,
                       visited, written, robots_gets, faults>>

\* time passes while some visit sleeps: a second of every running sleep
\* elapses
Tick ==
    /\ \E v \in Ids : At(v, "sleep") /\ visits[v].remaining > 0
    /\ visits' = [v \in Ids |->
                    IF visits[v].pc = "sleep" /\ visits[v].remaining > 0
                    THEN [visits[v] EXCEPT !.remaining = @ - 1]
                    ELSE visits[v]]
    /\ since_get' = [d \in DOMAIN since_get |->
                        IF since_get[d] < MaxDelaySeconds THEN since_get[d] + 1
                        ELSE since_get[d]]
    /\ UNCHANGED service_vars
    /\ UNCHANGED <<config, seed, phase, start_result, permits, robots_cache,
                   robots_lock, visited, written, robots_gets, faults>>

----------------------------------------------------------------------------

Next ==
    \/ Start
    \/ StartReturn
    \/ Acquire
    \/ Admit
    \/ RobotsLock
    \/ RobotsSend
    \/ RobotsText
    \/ Sleep
    \/ Get
    \/ Body
    \/ SkipInsert
    \/ Insert
    \/ JoinChildren

Spec == Init /\ [][Next]_vars

\* the crawl with time counted, against servers that also answer with non-2xx
\* statuses, for every configured rate_limit_wait_seconds
HttpNext ==
    \/ Start
    \/ StartReturn
    \/ Acquire
    \/ Admit
    \/ RobotsLock
    \/ RobotsSend
    \/ RobotsSendNon2xx
    \/ RobotsText
    \/ SleepElapsed
    \/ Tick
    \/ Get
    \/ GetNon2xx
    \/ Body
    \/ SkipInsert
    \/ Insert
    \/ JoinChildren

HttpSpec == HttpInit /\ [][HttpNext]_vars

----------------------------------------------------------------------------
(* The search engine, the indexer service and the RPC handlers.  A document
   body is the sequence of its words; a query is a word, or "(" which the
   query parser rejects.  The reader is built with ReloadPolicy::OnCommit and
   is never reloaded by the service itself: the index library reloads it from
   a watcher of the index directory, some time after a commit. *)

Origins == {"https://www.example.com", "::::"}

Queries == {"hello", "world", "("}

\* whether the string is a URL
OriginParses(origin) == origin # "::::"

\* QueryParser::parse_query
QueryParses(query) == query # "("

\* IndexerService::visit: max_concurrent_requests of the crawl
IndexerMaxConcurrentRequests == 1000

\* SearchEngine::read: TopDocs::with_limit
TopDocsLimit == 10

\* IndexerService::visit: the configuration of the crawl, fields as set by
\* the builder calls
IndexerConfig(max_depth) ==
    [disallow_domains |-> {"facebook.com", "google.com"},
     max_depth |-> max_depth,
     max_concurrent_requests |-> IndexerMaxConcurrentRequests]

\* Explorer::scrape: (depth, response_url, text) of a page
Scrape(depth, url, text) == [depth |-> depth, url |-> url, text |-> text]

\* the outputs the collector yields for an origin up to max_depth; an origin
\* that is no URL yields no page
CollectorOutputs(origin, max_depth) ==
    IF OriginParses(origin)
    THEN SelectSeq(<<Scrape(0, "https://www.example.com/", <<"hello">>),
                     Scrape(1, "https://www.example.com/a", <<"hello", "world">>)>>,
                   LAMBDA out : out.depth <= max_depth)
    ELSE << >>

\* doc!(url, origin_url, depth as u64, body): the u32 depth is widened
Document(text, url, origin_url, depth) ==
    [url |-> url, origin_url |-> origin_url, depth |-> depth, body |-> text]

\* the terms of a body, as indexed by the TEXT field
Tokens(text) == {text[i] : i \in DOMAIN text}

\* SearchResult of a retrieved document; the stored depth came from a u32 and
\* is read back `as u32` unchanged
Retrieved(doc) ==
    [relevant_url |-> doc.url, origin_url |-> doc.origin_url, depth |-> doc.depth]

RECURSIVE Matching(_, _, _)
\* the loaded documents from the i-th on that match the query, in index order
Matching(query, i, loaded) ==
    IF i > loaded THEN << >>
    ELSE (IF query \in Tokens(committed[i].body) THEN <<committed[i]>> ELSE << >>)
         \o Matching(query, i + 1, loaded)

\* SearchEngine::read on the searcher the reader holds
Read(query) ==
    IF ~QueryParses(query)
    THEN [ok |-> FALSE, error |-> "syntax error", results |-> << >>]
    ELSE LET hits == Matching(query, 1, searcher)
             top  == SubSeq(hits, 1, IF Len(hits) < TopDocsLimit THEN Len(hits)
                                     ELSE TopDocsLimit)
         IN  [ok |-> TRUE, error |-> "",
              results |-> [i \in DOMAIN top |-> Retrieved(top[i])]]

\* IndexerService::visit returns Ok(..) when the collector stream has ended
VisitResult == [ok |-> TRUE, error |-> ""]

\* SearchService::index: the answer to the result of visit
IndexOutcome(res) ==
    IF res.ok
    THEN [kind |-> "response", status |-> "OK", message |-> "", results |-> << >>]
    ELSE [kind |-> "status", status |-> "ABORTED", message |-> res.error,
          results |-> << >>]

\* SearchService::search: the answer to the result of read
SearchOutcome(res) ==
    IF res.ok
    THEN [kind |-> "response", status |-> "OK", message |-> "", results |-> res.results]
    ELSE [kind |-> "status", status |-> "ABORTED", message |-> res.error,
          results |-> << >>]

RpcsSoFar == Len(rpc_log) + Len(indexing)

\* the service process: no Crawler of crawly.rs is built by it
ServiceInit ==
    /\ config = CHOOSE c \in DefaultWaitConfigs : TRUE
    /\ Constructed
    /\ seed = "::::"
    /\ ServiceConstructed

\* SearchService::index up to the first poll of the collector: the crawl is
\* configured and the origin handed to it
Index ==
    /\ indexing = << >>
    /\ RpcsSoFar < MaxRpcs
    /\ \E origin \in Origins, k \in 0..MaxDepthCfg :
          indexing' = <<[origin |-> origin, k |-> k, config |-> IndexerConfig(k),
                         outputs |-> CollectorOutputs(origin, k)]>>
    /\ UNCHANGED <<crawl_vars, faults, committed, pending, searcher, n_writes, rpc_log>>

\* one turn of the `while let` loop: the collector yields a page and
\* SearchEngine::write adds it and commits; a failed commit is only printed
IndexWrite ==
    /\ indexing # << >>
    /\ indexing[1].outputs # << >>
    /\ LET r   == indexing[1]
           out == Head(r.outputs)
           doc == Document(out.text, out.url, r.origin, out.depth)
       IN  /\ \/ /\ committed' = committed \o pending \o <<doc>>
                 /\ pending' = << >>
                 /\ UNCHANGED faults
              \/ /\ InjectFault
                 /\ pending' \in {pending, Append(pending, doc)}
                 /\ UNCHANGED committed
           /\ indexing' = <<[r EXCEPT !.outputs = Tail(@)]>>
    /\ n_writes' = n_writes + 1
    /\ UNCHANGED <<crawl_vars, searcher, rpc_log>>

\* the collector stream has ended: visit returns and the handler answers
IndexReturn ==
    /\ indexing # << >>
    /\ indexing[1].outputs = << >>
    /\ rpc_log' = Append(rpc_log,
                         [rpc |-> "Index", origin |-> indexing[1].origin,
                          k |-> indexing[1].k, config |-> indexing[1].config,
                          query |-> "", outcome |-> IndexOutcome(VisitResult),
                          n_committed |-> Len(committed), writes |-> n_writes])
    /\ indexing' = << >>
    /\ UNCHANGED <<crawl_vars, faults, committed, pending, searcher, n_writes>>

\* ReloadPolicy::OnCommit: the watcher of the index directory reloads the
\* reader's searcher after a commit
Reload ==
    /\ searcher < Len(committed)
    /\ searcher' = Len(committed)
    /\ UNCHANGED <<crawl_vars, faults, committed, pending, n_writes, indexing, rpc_log>>

\* SearchService::search
Search ==
    /\ RpcsSoFar < MaxRpcs
    /\ \E query \in Queries :
          rpc_log' = Append(rpc_log,
                            [rpc |-> "Search", origin |-> "", k |-> 0,
                             config |-> << >>, query |-> query,
                             outcome |-> SearchOutcome(Read(query)),
                             n_committed |-> Len(committed), writes |-> n_writes])
    /\ UNCHANGED <<crawl_vars, faults, committed, pending, searcher, n_writes, indexing>>

ServiceNext ==
    \/ Index
    \/ IndexWrite
    \/ IndexReturn
    \/ Reload
    \/ Search

ServiceSpec == ServiceInit /\ [][ServiceNext]_vars

\* the executor keeps polling a future that can make progress, and every HTTP
\* request and sleep completes
FairSpec == Spec /\ WF_vars(Next)

----------------------------------------------------------------------------

(* Derived views of the state *)

\* the tuples passed to Writer.write so far
WrittenTuples == BagToSet(written)

\* how often a URL was passed to Writer.write
TimesWritten(u) ==
    BagCardinality([t \in {w \in WrittenTuples : w.url = u} |-> written[t]])

\* the visits with an HTTP request in flight: robots.txt send or body, page
\* GET, page body
InFlight ==
    {v \in Ids : visits[v].pc \in {"robots_send", "robots_text", "get", "body"}}

\* a visit suspended on the semaphore or on the robots-cache lock (no guard of
\* the visited-set lock is held across a suspension point, so it never blocks)
Blocked(v) ==
    \/ visits[v].pc = "acquire" /\ ~CanAcquire
    \/ visits[v].pc = "robots_lock" /\ robots_lock # << >>

\* a visit that the executor can advance
Runnable(v) ==
    /\ visits[v].pc # "done"
    /\ ~Blocked(v)
    /\ visits[v].pc = "join" => \A c \in ChildIds(v) : visits[c].pc = "done"

Returned == phase = "returned"

----------------------------------------------------------------------------
(* Properties of a crawl *)

\* C1 (page cap): when start() has returned, the visited set holds at most
\* max_pages + max_concurrent_requests URLs.
C1_PageCap ==
    Returned =>
        Cardinality(visited) <= config.max_pages + config.max_concurrent_requests

\* C2 (dedup): no URL is passed to Writer.write more than once in a crawl.
C2_Dedup == \A t \in WrittenTuples : TimesWritten(t.url) <= 1

\* C3 (robots once): the GET of a domain's scheme://host/robots.txt is issued
\* at most once in a crawl, whether the fetch succeeds or fails.
C3_RobotsOnce == \A g \in BagToSet(robots_gets) : CopiesIn(g, robots_gets) <= 1

\* C4 (same domain): every tuple passed to Writer.write has a URL whose host is
\* the host of the seed URL.
C4_SameDomain ==
    \A t \in WrittenTuples : t.url.host = ParseSeed(seed).url.host

\* C5 (depth cap): no tuple passed to Writer.write has depth > max_depth, and no
\* visit of depth > max_depth issues a page GET.
C5_DepthCap ==
    /\ \A t \in WrittenTuples : t.depth <= config.max_depth
    /\ \A v \in Ids : visits[v].got => visits[v].depth <= config.max_depth

\* a visit deeper than max_depth has been turned away, in a crawl that wrote a
\* page of depth max_depth
C5_Witness ==
    /\ \E v \in Ids : visits[v].depth > config.max_depth /\ visits[v].pc = "done"
    /\ \E t \in WrittenTuples : t.depth = config.max_depth

\* C6 (concurrency cap): at most max_concurrent_requests visits have an HTTP
\* request in flight.
C6_ConcurrencyCap == Cardinality(InFlight) <= config.max_concurrent_requests

\* as many requests in flight as there are permits, and a further visit waiting
\* for one
C6_Witness ==
    /\ Cardinality(InFlight) = config.max_concurrent_requests
    /\ \E v \in Ids : visits[v].pc = "acquire"

\* C7 (MIME filter): with allowed_mimes non-empty, a page is passed to
\* Writer.write only if its sniffed type is in allowed_mimes or nothing was
\* sniffed.
C7_MimeFilter ==
    config.allowed_mimes # {} =>
        \A t \in WrittenTuples : PageSniff(t.url) \in config.allowed_mimes \cup {"none"}

\* C8 (start fails only on the seed parse): start() returns an error exactly
\* when the seed text cannot be parsed.
C8_ErrIffSeedUnparsable ==
    Returned => (start_result = "Err" <=> ~ParseSeed(seed).ok)

\* no state of a running crawl has all its unfinished visits suspended on the
\* semaphore, on the robots-cache lock or on children that cannot advance
NoVisitsAllBlocked ==
    (phase = "running" /\ \E v \in Ids : visits[v].pc # "done")
        => \E v \in Ids : Runnable(v)

\* C9 (termination without deadlock): under fair scheduling start() eventually
\* returns, and no reachable state has every pending visit blocked.
C9_Terminates == <>Returned /\ []NoVisitsAllBlocked

\* a crawl with a single permit has returned Ok after a child visit wrote its page
C9_Witness ==
    /\ Returned
    /\ start_result = "Ok"
    /\ config.max_concurrent_requests = 1
    /\ \E v \in Ids : visits[v].depth = 1 /\ visits[v].wrote

C13_WrittenInVisited ==
    \A t \in WrittenTuples : t.url \in visited

\* C13 (written URLs are visited, once inserted): the URL of every visit that
\* called Writer.write is in the visited set as soon as that visit is past the
\* visited-set insert that follows its write, and when start() has returned
\* every written URL is in the visited set.
C13_WrittenVisitedAfterInsert ==
    /\ \A v \in Ids :
          (visits[v].wrote /\ visits[v].pc # "insert") => visits[v].url \in visited
    /\ Returned => \A t \in WrittenTuples : t.url \in visited

\* start() has returned from a crawl that wrote and inserted a page
C13_Witness ==
    /\ Returned
    /\ \E v \in Ids : visits[v].wrote /\ visits[v].inserted /\ visits[v].pc = "done"

C21_SiblingIsolation ==
    \A v \in Ids :
        (visits[v].children > 0 /\ visits[v].pc = "done") =>
            /\ visits[v].result = "Ok"
            /\ \A c \in ChildIds(v) : visits[c].pc = "done"

\* a parent has returned Ok with one child that returned an error and another
\* child that wrote its page
C21_Witness ==
    \E v \in Ids :
        /\ visits[v].pc = "done"
        /\ visits[v].result = "Ok"
        /\ \E c1, c2 \in ChildIds(v) :
              /\ c1 # c2
              /\ visits[c1].pc = "done" /\ visits[c1].result = "Err"
              /\ visits[c2].pc = "done" /\ visits[c2].wrote

\* C22 (origin and depth attribution): every written tuple carries the parsed
\* seed URL as origin_url; a visit that wrote its page wrote it with its hop
\* count from the seed as depth (0 for the seed); and every tuple written with
\* depth d > 0 has a URL that a link of a page written with depth d - 1 joins
\* to.
C22_OriginAndDepth ==
    /\ \A t \in WrittenTuples : t.origin_url = ParseSeed(seed).url
    /\ \A v \in Ids :
          visits[v].wrote =>
              [url |-> visits[v].url, origin_url |-> ParseSeed(seed).url,
               depth |-> Len(v)] \in WrittenTuples
    /\ \A t \in WrittenTuples :
          t.depth > 0 =>
              \E p \in WrittenTuples :
                  /\ p.depth = t.depth - 1
                  /\ \E i \in DOMAIN PageLinks(p.url) :
                        LET j == JoinUrl(p.url, PageLinks(p.url)[i])
                        IN  j.ok /\ j.url = t.url

\* a page reached through a link of the seed page has been written
C22_Witness ==
    \E t \in WrittenTuples : t.depth = 1 /\ t.url # ParseSeed(seed).url

\* C23 (permit conservation): while a crawl runs the available permits plus
\* the permits held by visits are max_concurrent_requests; a visit that
\* awaits its children or has returned, on whatever path, holds no permit;
\* and when start() has returned all max_concurrent_requests permits are
\* available.
C23_PermitConservation ==
    << >> \in Ids =>
        /\ permits + Cardinality({v \in Ids : visits[v].permit})
               = config.max_concurrent_requests
        /\ \A v \in Ids :
              visits[v].pc \in {"acquire", "skip_insert", "insert", "join", "done"}
                  => ~visits[v].permit
        /\ Returned => permits = config.max_concurrent_requests

\* start() has returned from a crawl in which a parent joined its children
\* and some visit returned an error
C23_Witness ==
    /\ Returned
    /\ \E v \in Ids : visits[v].children > 0
    /\ \E v \in Ids : visits[v].result = "Err"
    /\ permits = config.max_concurrent_requests

----------------------------------------------------------------------------
(* Claims about robots failures, statuses and delays, checked under HttpSpec *)

\* C11 (robots fetch failure means no policy): a visit whose GET of
\* robots.txt failed with a network error or was answered with a non-2xx
\* status still sleeps once, for the default delay, before its page GET, is
\* not denied, and the non-2xx body is neither handed to the visit nor cached
\* as robots content.
C11_RobotsFailureNoPolicy ==
    /\ \A v \in Ids :
          visits[v].robots_fetch \in {"error", "non2xx"} =>
              /\ visits[v].got =>
                     /\ Len(visits[v].slept) = 1
                     /\ visits[v].slept[1] \in {RATE_LIMIT_WAIT_SECONDS,
                                                config.rate_limit_wait_seconds}
              /\ ~visits[v].robots.some
              /\ (visits[v].pc = "done" /\ visits[v].result = "Ok") => visits[v].got
    /\ \A d \in DOMAIN robots_cache : robots_cache[d].status_ok

\* C12 (only 2xx pages are written): every visit that passed a page to
\* Writer.write had a 2xx response to its page GET.
C12_Only2xxWritten ==
    \A v \in Ids : visits[v].wrote => visits[v].response = "2xx"

\* the Crawl-delay lines of the robots.txt text a visit was given
DelayLinesGiven(v) ==
    IF visits[v].robots.status_ok THEN RobotsDelayLines(visits[v].robots.from_host)
    ELSE ErrorBodyDelayLines

\* the sleep the visit is to take before its page GET: the first parsable
\* Crawl-delay of its robots.txt, else the configured rate_limit_wait_seconds
DelayDue(v) ==
    LET parsed == SelectSeq(DelayLinesGiven(v), LAMBDA x : x # NoParse)
    IN  IF config.robots /\ visits[v].robots.some /\ Len(parsed) > 0
        THEN parsed[1]
        ELSE config.rate_limit_wait_seconds

\* C17 (politeness spacing): with robots enabled and a robots.txt that sets
\* Crawl-delay: d, a page GET to a domain is sent at least d seconds after the
\* previous page GET to that domain.
C17_PolitenessSpacing ==
    \A v \in Ids :
        (/\ config.robots
         /\ visits[v].got
         /\ visits[v].robots.some
         /\ SelectSeq(DelayLinesGiven(v), LAMBDA x : x # NoParse) # << >>
         /\ visits[v].gap # NoGap)
        => visits[v].gap >= DelayDue(v)

\* C20 (crawl-delay selection): a visit that sent its page GET slept exactly
\* once before it, for the Crawl-delay of the robots.txt when robots is
\* enabled and one was parsed, and for the configured rate_limit_wait_seconds
\* otherwise (no parsable Crawl-delay, or robots disabled).
C20_DelaySelection ==
    \A v \in Ids :
        visits[v].got => /\ Len(visits[v].slept) = 1
                         /\ visits[v].slept[1] = DelayDue(v)

----------------------------------------------------------------------------
(* Claims about the service, checked under ServiceSpec *)

\* C14 (RPC error surfacing): an Index whose origin cannot be parsed and a
\* Search whose query the parser rejects are answered with a normal response
\* that has status ERROR and a non-empty message, not with a transport-level
\* failure.
C14_ErrorSurfacing ==
    \A i \in DOMAIN rpc_log :
        LET e == rpc_log[i] IN
        (\/ e.rpc = "Index" /\ ~OriginParses(e.origin)
         \/ e.rpc = "Search" /\ ~QueryParses(e.query))
        => /\ e.outcome.kind = "response"
           /\ e.outcome.status = "ERROR"
           /\ e.outcome.message # ""

\* C15 (write-then-read visibility): a Search answered after a document was
\* committed, whose query is a word of that document's body and matches fewer
\* than ten committed documents, has a hit for the document's URL.
C15_WriteThenRead ==
    \A i \in DOMAIN rpc_log :
        LET e == rpc_log[i]
            hit(d) == e.query \in Tokens(committed[d].body)
        IN  (e.rpc = "Search" /\ QueryParses(e.query)) =>
                \A d \in 1..e.n_committed :
                    (hit(d) /\ Cardinality({c \in 1..e.n_committed : hit(c)}) < 10)
                    => \E h \in DOMAIN e.outcome.results :
                           e.outcome.results[h].relevant_url = committed[d].url

\* C16 (idempotence of Search): two Search requests with the same query and
\* no call of Writer.write between them get the same hits in the same order.
C16_SearchIdempotent ==
    \A i, j \in DOMAIN rpc_log :
        (/\ i < j
         /\ rpc_log[i].rpc = "Search"
         /\ rpc_log[j].rpc = "Search"
         /\ rpc_log[i].query = rpc_log[j].query
         /\ rpc_log[i].writes = rpc_log[j].writes)
        => rpc_log[i].outcome = rpc_log[j].outcome

\* the Index requests received so far: answered or being served
IndexRequests ==
    {rpc_log[i] : i \in {n \in DOMAIN rpc_log : rpc_log[n].rpc = "Index"}}
    \cup {indexing[i] : i \in DOMAIN indexing}

\* C19 (Index configuration): every Index(origin, k) runs a crawl with
\* max_depth = k, max_pages = 3, max_concurrent_requests = 2 and robots
\* enabled, and every document it writes carries origin as origin_url.
C19_IndexConfiguration ==
    /\ \A r \in IndexRequests :
          /\ r.config.max_depth = r.k
          /\ "max_pages" \in DOMAIN r.config
          /\ r.config.max_pages = 3
          /\ r.config.max_concurrent_requests = 2
          /\ "robots" \in DOMAIN r.config
          /\ r.config.robots
    /\ \A d \in DOMAIN committed :
          \E r \in IndexRequests : committed[d].origin_url = r.origin

====
